---- MODULE Spec2Model ----
(***************************************************************************)
(* ALP serial link adapter: the frame codec (alp_msg.py, AlpFrame) and the *)
(* half-duplex session machine of one port (alp.py, AlpPort).              *)
(*                                                                         *)
(* Byte buffers are sequences of integers 0..255.  Python offsets are      *)
(* 0-based; At(data, i) reads data[i] so that the offsets in the codec are *)
(* the ones of the source.  Time is counted in half seconds.               *)
(***************************************************************************)
EXTENDS Integers, Sequences, FiniteSets, TLC

(***************************************************************************)
(* Program constants                                                       *)
(***************************************************************************)
SOH == 1
PI1 == 65
PI2 == 50
STX == 2
ETX == 3

ACK == 6
NAK == 21
ENQ == 5
EOT == 4

RESEND_LIMIT == 10
RESEND_LIMIT_NAK == 5

SESSION_IDLE == 0
SESSION_ACTIVE_MASTER == 1
SESSION_ACTIVE_CLIENT == 2
SESSION_FINISHED == 3

MESSAGE_STATE_NACKED == 3
MESSAGE_STATE_NO_REPLY == 4

RX_BUFFER_MAX_LEN == 1024

\* Half seconds: DIAGNOSTICS_INTERVAL = 5 s, and the 4.5 s and 19.5 s
\* silence thresholds of session_diagnostics.
DIAGNOSTICS_INTERVAL == 10
DOWNLINK_SILENCE == 9
UPLINK_SILENCE == 39

(***************************************************************************)
(* Bounds of the model                                                     *)
(***************************************************************************)
MaxPayloadLen == 3
MaxGarbageLen == 3

(***************************************************************************)
(* Bytes and buffers                                                       *)
(***************************************************************************)
At(data, i) == data[i + 1]

\* data[n:]
Drop(data, n) == SubSeq(data, n + 1, Len(data))

\* data[:n]
Take(data, n) == SubSeq(data, 1, n)

RECURSIVE Xor(_, _)
Xor(a, b) ==
    IF a = 0 THEN b
    ELSE IF b = 0 THEN a
    ELSE (((a % 2) + (b % 2)) % 2) + 2 * Xor(a \div 2, b \div 2)

Pow2(k) == CASE k = 0 -> 1 [] k = 1 -> 2 [] k = 2 -> 4 [] k = 3 -> 8
             [] k = 4 -> 16 [] k = 5 -> 32 [] k = 6 -> 64 [] OTHER -> 128

SetMin(S) == CHOOSE x \in S : \A y \in S : x <= y

\* The element of a set of one element: Only({e(x) : x \in {v}}) is e(v)
\* with v computed once
Only(S) == CHOOSE x \in S : TRUE

RECURSIVE SeqsUpTo(_, _)
SeqsUpTo(S, n) ==
    IF n = 0 THEN {<< >>}
    ELSE LET shorter == SeqsUpTo(S, n - 1)
         IN shorter \cup {Append(q, x) : q \in shorter, x \in S}

(***************************************************************************)
(* AlpFrame                                                                *)
(***************************************************************************)
\* Encode(b): the two nibble bytes of b.
Encode(b) == << ((b % 256) \div 16) + 48, ((b % 256) % 16) + 48 >>

\* Decode(b0, b1): -1 stands for None.
Decode(b0, b1) ==
    IF b0 < 48 \/ 63 < b0 \/ b1 < 48 \/ 63 < b1
    THEN -1
    ELSE (b0 - 48) * 16 + (b1 - 48)

\* EncodeData: the data field of snap_frame with its checksum and parity,
\* both taken over the encoded bytes.
RECURSIVE EncodeData(_, _, _, _, _)
EncodeData(data, j, field, chksum, chkpar) ==
    IF j > Len(data)
    THEN [field |-> field, chksum |-> chksum % 256, chkpar |-> chkpar]
    ELSE LET e == Encode(data[j])
         IN EncodeData(data, j + 1, field \o e,
                       chksum + e[1] + e[2],
                       Xor(Xor(chkpar, e[1]), e[2]))

WriteNoParity(snap_frame) ==
    LET d == EncodeData(snap_frame, 1, << >>, 0, 0)
    IN << SOH, PI1, PI2, STX >> \o d.field \o << ETX >>
         \o Encode(d.chksum) \o Encode(d.chksum)

Write(snap_frame) ==
    LET d == EncodeData(snap_frame, 1, << >>, 0, 0)
    IN << SOH, PI1, PI2, STX >> \o d.field \o << ETX >>
         \o Encode(d.chksum) \o Encode(d.chkpar)

\* A result of Parse: (consumed, nack, frame); parsed is "frame is not None"
\* and frame is << >> when it is None.
Result(consumed, nack, parsed, frame) ==
    [consumed |-> consumed, nack |-> nack, parsed |-> parsed, frame |-> frame]

\* The search for the frame start (lines 98-102): dlen when there is none.
ParseStart(data) ==
    LET dlen == Len(data)
        found == {i \in 0..(dlen - 9) :
                     /\ At(data, i) = SOH
                     /\ At(data, i + 1) = PI1
                     /\ At(data, i + 2) = PI2}
    IN IF found = {} THEN dlen ELSE SetMin(found)

\* sum and xor of data[a], ..., data[b] (lines 131-133), by halves
RECURSIVE SumBytes(_, _, _)
SumBytes(data, a, b) ==
    IF a > b THEN 0
    ELSE IF a = b THEN At(data, a)
    ELSE SumBytes(data, a, (a + b) \div 2)
            + SumBytes(data, (a + b) \div 2 + 1, b)

RECURSIVE XorBytes(_, _, _)
XorBytes(data, a, b) ==
    IF a > b THEN 0
    ELSE IF a = b THEN At(data, a)
    ELSE Xor(XorBytes(data, a, (a + b) \div 2),
             XorBytes(data, (a + b) \div 2 + 1, b))

\* The data loop (lines 124-145) from offset i on.  Its outcome is "etx"
\* (break at ETX, offset = i, checksum masked), "bad" (a pair that does not
\* decode, at i) or "end" (the range is exhausted: offset stays start + 4).
\* The loop visits i, i + 2, ... below (dlen // 2) * 2 - 2 and stops at the
\* first of them that holds ETX or begins a pair that does not decode; the
\* pairs before it are summed, xor-ed and decoded.
ParseData(data, start, i, chksum, chkpar, frame) ==
    LET limit == (Len(data) \div 2) * 2 - 2
        stops == {k \in i..(limit - 1) :
                     /\ (k - i) % 2 = 0
                     /\ \/ At(data, k) = ETX
                        \/ Decode(At(data, k), At(data, k + 1)) = -1}
        stop == IF stops # {} THEN SetMin(stops)
                ELSE IF i >= limit THEN i
                ELSE i + 2 * ((limit - i + 1) \div 2)
        sum == chksum + SumBytes(data, i, stop - 1)
        par == Xor(chkpar, XorBytes(data, i, stop - 1))
        dec == frame \o [k \in 1..((stop - i) \div 2) |->
                            Decode(At(data, i + 2 * (k - 1)),
                                   At(data, i + 2 * (k - 1) + 1))]
    IN IF stops = {}
       THEN [kind |-> "end", offset |-> start + 4, chksum |-> sum,
             chkpar |-> par, frame |-> dec]
       ELSE IF At(data, stop) = ETX
       THEN [kind |-> "etx", offset |-> stop, chksum |-> sum % 256,
             chkpar |-> par, frame |-> dec]
       ELSE [kind |-> "bad", offset |-> stop, chksum |-> sum,
             chkpar |-> par, frame |-> dec]

\* The checks after the data loop (lines 147-170).
ParseTrailerNoCheck(data, start, d) ==
    IF At(data, d.offset) # ETX \/ Len(data) - 5 < d.offset
    THEN Result(start, FALSE, FALSE, << >>)
    ELSE Result(d.offset + 5, FALSE, TRUE, d.frame)

\* ParseTrailer with the checksum mismatch reported at the frame start
ParseTrailerKeepsStart(data, start, d) ==
    IF At(data, d.offset) # ETX \/ Len(data) - 5 < d.offset
    THEN Result(start, FALSE, FALSE, << >>)
    ELSE LET fcs == Decode(At(data, d.offset + 1), At(data, d.offset + 2))
             fcp == Decode(At(data, d.offset + 3), At(data, d.offset + 4))
         IN IF fcs = -1 \/ fcp = -1
            THEN Result(start, TRUE, FALSE, << >>)
            ELSE IF fcs # d.chksum \/ fcp # d.chkpar
            THEN Result(start, TRUE, FALSE, << >>)
            ELSE Result(d.offset + 5, FALSE, TRUE, d.frame)

ParseTrailer(data, start, d) ==
    IF At(data, d.offset) # ETX \/ Len(data) - 5 < d.offset
    THEN Result(start, FALSE, FALSE, << >>)
    ELSE LET fcs == Decode(At(data, d.offset + 1), At(data, d.offset + 2))
             fcp == Decode(At(data, d.offset + 3), At(data, d.offset + 4))
         IN IF fcs = -1 \/ fcp = -1
            THEN Result(d.offset, TRUE, FALSE, << >>)
            ELSE IF fcs # d.chksum \/ fcp # d.chkpar
            THEN Result(d.offset + 5, TRUE, FALSE, << >>)
            ELSE Result(d.offset + 5, FALSE, TRUE, d.frame)

ParseNoNack(data) ==
    LET dlen == Len(data)
        start == ParseStart(data)
    IN IF dlen < 9 THEN Result(0, FALSE, FALSE, << >>)
       ELSE IF start > dlen - 9 THEN Result(dlen, FALSE, FALSE, << >>)
       ELSE IF At(data, start + 3) # STX
       THEN Result(start + 4, TRUE, FALSE, << >>)
       ELSE LET d == ParseData(data, start, start + 4, 0, 0, << >>)
            IN IF d.kind = "bad"
               THEN Result(d.offset, FALSE, FALSE, << >>)
               ELSE ParseTrailer(data, start, d)

Parse(data) ==
    LET dlen == Len(data)
        start == ParseStart(data)
    IN IF dlen < 9 THEN Result(0, FALSE, FALSE, << >>)
       ELSE IF start > dlen - 9 THEN Result(dlen, FALSE, FALSE, << >>)
       ELSE IF At(data, start + 3) # STX
       THEN Result(start + 4, TRUE, FALSE, << >>)
       ELSE LET d == ParseData(data, start, start + 4, 0, 0, << >>)
            IN IF d.kind = "bad"
               THEN Result(d.offset, TRUE, FALSE, << >>)
               ELSE ParseTrailer(data, start, d)

(***************************************************************************)
(* State                                                                   *)
(***************************************************************************)
VARIABLES
    \* AlpPort
    port,                       \* the serial port is open
    diag_timer,                 \* session_diagnostics is registered
    session_state,
    downlink_buffer,            \* << >> is the empty slot ""
    downlink_retransmit_count,
    since_downlink,             \* now - latest_downlink_event_time, capped
    since_uplink,               \* now - latest_uplink_event_time, capped
    active_faults,              \* a list of tags
    line_fault_over_msg_sent,
    message_counter,
    rx_buffer,
    \* what the last handler did: its name, the writes to the port, the
    \* notifications to the fault bus, the frames given to the classifier
    last_op,
    written,
    notified,
    dispatched,
    \* history of the run
    hist,
    \* a receiver that applies Parse to a buffer fed in chunks
    c_in,
    c_pending,
    c_buf,
    c_results,
    c_parsing,
    \* a classifier that is given one SNAP message: the message, the records
    \* it sent to the alarm sink, and whether it has returned
    m_msg,
    m_alarms,
    m_done

portVars == << port, diag_timer, session_state, downlink_buffer,
               downlink_retransmit_count, since_downlink, since_uplink,
               active_faults, line_fault_over_msg_sent, message_counter,
               rx_buffer >>
obsVars == << last_op, written, notified, dispatched, hist >>
codecVars == << c_in, c_pending, c_buf, c_results, c_parsing >>
msgVars == << m_msg, m_alarms, m_done >>
vars == << portVars, obsVars, codecVars, msgVars >>

(***************************************************************************)
(* AlpPort: the handlers work on a record s of the port's fields           *)
(***************************************************************************)
Self ==
    [port |-> port,
     session_state |-> session_state,
     downlink_buffer |-> downlink_buffer,
     downlink_retransmit_count |-> downlink_retransmit_count,
     since_downlink |-> since_downlink,
     since_uplink |-> since_uplink,
     active_faults |-> active_faults,
     line_fault_over_msg_sent |-> line_fault_over_msg_sent,
     message_counter |-> message_counter,
     rx_buffer |-> rx_buffer,
     written |-> << >>,
     notified |-> << >>,
     dispatched |-> << >>]

Store(s) ==
    /\ session_state' = s.session_state
    /\ downlink_buffer' = s.downlink_buffer
    /\ downlink_retransmit_count' = s.downlink_retransmit_count
    /\ since_downlink' = s.since_downlink
    /\ since_uplink' = s.since_uplink
    /\ active_faults' = s.active_faults
    /\ line_fault_over_msg_sent' = s.line_fault_over_msg_sent
    /\ message_counter' = s.message_counter
    /\ rx_buffer' = s.rx_buffer
    /\ written' = s.written
    /\ notified' = s.notified
    /\ dispatched' = s.dispatched

InList(tag, list) == \E k \in 1..Len(list) : list[k] = tag

\* list.remove(tag): the first occurrence
RECURSIVE ListRemove(_, _)
ListRemove(list, tag) ==
    IF list = << >> THEN << >>
    ELSE IF Head(list) = tag THEN Tail(list)
    ELSE << Head(list) >> \o ListRemove(Tail(list), tag)

Count(list, x) == Cardinality({k \in 1..Len(list) : list[k] = x})

\* PortBase.write: the bytes go to the port.
PortWrite(s, buf, via) ==
    [s EXCEPT !.written = Append(@, [bytes |-> buf, via |-> via])]

\* PortBase.send_fault_detected / send_fault_over
Notify(s, what) == [s EXCEPT !.notified = Append(@, what)]

\* PortBase.consume_rx_buffer / clear_rx_buffer
ConsumeRxBuffer(s, n) == [s EXCEPT !.rx_buffer = Drop(@, n)]
ClearRxBuffer(s) == [s EXCEPT !.rx_buffer = << >>]

\* SNAPMsg.Parse(frame).empty: a frame too short for a SNAP header
SnapEmpty(frame) == Len(frame) < 2

session_is_active(s) ==
    ~(s.session_state = SESSION_IDLE \/ s.session_state = SESSION_FINISHED)

session_begin(s, state) ==
    [s EXCEPT !.session_state = state, !.downlink_buffer = << >>]

\* session_finish that leaves the downlink slot as it is
session_finish_keeps_slot(s) ==
    [s EXCEPT !.downlink_retransmit_count = 0,
              !.session_state = SESSION_FINISHED]

session_finish(s) ==
    [s EXCEPT !.downlink_retransmit_count = 0,
              !.downlink_buffer = << >>,
              !.session_state = SESSION_FINISHED]

transmit_control_char(s, char) ==
    LET s1 == IF ~session_is_active(s)
              THEN session_begin(s, SESSION_ACTIVE_MASTER) ELSE s
        s2 == [s1 EXCEPT !.since_downlink = 0,
                         !.downlink_buffer = << char >>]
    IN PortWrite(s2, s2.downlink_buffer, "control")

send_nothing(s) == s

send_ack(s) == transmit_control_char(s, ACK)
send_nak(s) == transmit_control_char(s, NAK)
send_enq(s) == transmit_control_char(s, ENQ)
send_eot(s) == transmit_control_char(s, EOT)

ResendLimit(message_state) ==
    IF message_state = MESSAGE_STATE_NACKED
    THEN RESEND_LIMIT_NAK ELSE RESEND_LIMIT

re_transmit_inclusive(s, message_state) ==
    LET resend_limit == ResendLimit(message_state)
    IN IF s.downlink_retransmit_count <= resend_limit
       THEN PortWrite([s EXCEPT !.downlink_retransmit_count = @ + 1,
                                !.since_downlink = 0],
                      s.downlink_buffer, "retransmit")
       ELSE s

re_transmit_no_linefault(s, message_state) ==
    LET resend_limit == ResendLimit(message_state)
    IN IF s.downlink_retransmit_count < resend_limit
       THEN PortWrite([s EXCEPT !.downlink_retransmit_count = @ + 1,
                                !.since_downlink = 0],
                      s.downlink_buffer, "retransmit")
       ELSE IF s.downlink_retransmit_count = resend_limit
       THEN session_finish(s)
       ELSE s

re_transmit_limit_one(s, message_state) ==
    LET resend_limit == 1
    IN IF s.downlink_retransmit_count < resend_limit
       THEN PortWrite([s EXCEPT !.downlink_retransmit_count = @ + 1,
                                !.since_downlink = 0],
                      s.downlink_buffer, "retransmit")
       ELSE IF s.downlink_retransmit_count = resend_limit
       THEN LET s1 == session_finish(s)
            IN IF ~InList("linefault", s1.active_faults)
               THEN Notify([s1 EXCEPT !.active_faults =
                                          Append(@, "linefault")],
                           "fault_detected")
               ELSE s1
       ELSE s

\* re_transmit that reports the fault at the limit whether or not linefault
\* is active
re_transmit_reports_again(s, message_state) ==
    LET resend_limit == ResendLimit(message_state)
    IN IF s.downlink_retransmit_count < resend_limit
       THEN PortWrite([s EXCEPT !.downlink_retransmit_count = @ + 1,
                                !.since_downlink = 0],
                      s.downlink_buffer, "retransmit")
       ELSE IF s.downlink_retransmit_count = resend_limit
       THEN Notify([session_finish(s) EXCEPT
                       !.active_faults = Append(@, "linefault")],
                   "fault_detected")
       ELSE s

\* re_transmit with no limit for a NAK
re_transmit_nak_unlimited(s, message_state) ==
    LET resend_limit == ResendLimit(message_state)
    IN IF message_state = MESSAGE_STATE_NACKED
          \/ s.downlink_retransmit_count < resend_limit
       THEN PortWrite([s EXCEPT !.downlink_retransmit_count = @ + 1,
                                !.since_downlink = 0],
                      s.downlink_buffer, "retransmit")
       ELSE IF s.downlink_retransmit_count = resend_limit
       THEN LET s1 == session_finish(s)
            IN IF ~InList("linefault", s1.active_faults)
               THEN Notify([s1 EXCEPT !.active_faults =
                                          Append(@, "linefault")],
                           "fault_detected")
               ELSE s1
       ELSE s

\* re_transmit that does nothing when no session is active
re_transmit_active_only(s, message_state) ==
    LET resend_limit == ResendLimit(message_state)
    IN IF ~session_is_active(s) THEN s
       ELSE IF s.downlink_retransmit_count < resend_limit
       THEN PortWrite([s EXCEPT !.downlink_retransmit_count = @ + 1,
                                !.since_downlink = 0],
                      s.downlink_buffer, "retransmit")
       ELSE IF s.downlink_retransmit_count = resend_limit
       THEN LET s1 == session_finish(s)
            IN IF ~InList("linefault", s1.active_faults)
               THEN Notify([s1 EXCEPT !.active_faults =
                                          Append(@, "linefault")],
                           "fault_detected")
               ELSE s1
       ELSE s

\* re_transmit that does nothing when the downlink slot is empty
re_transmit_skips_empty(s, message_state) ==
    LET resend_limit == ResendLimit(message_state)
    IN IF s.downlink_buffer = << >> THEN s
       ELSE IF s.downlink_retransmit_count < resend_limit
       THEN PortWrite([s EXCEPT !.downlink_retransmit_count = @ + 1,
                                !.since_downlink = 0],
                      s.downlink_buffer, "retransmit")
       ELSE IF s.downlink_retransmit_count = resend_limit
       THEN LET s1 == session_finish(s)
            IN IF ~InList("linefault", s1.active_faults)
               THEN Notify([s1 EXCEPT !.active_faults =
                                          Append(@, "linefault")],
                           "fault_detected")
               ELSE s1
       ELSE s

re_transmit(s, message_state) ==
    LET resend_limit == ResendLimit(message_state)
    IN IF s.downlink_retransmit_count < resend_limit
       THEN PortWrite([s EXCEPT !.downlink_retransmit_count = @ + 1,
                                !.since_downlink = 0],
                      s.downlink_buffer, "retransmit")
       ELSE IF s.downlink_retransmit_count = resend_limit
       THEN LET s1 == session_finish(s)
            IN IF ~InList("linefault", s1.active_faults)
               THEN Notify([s1 EXCEPT !.active_faults =
                                          Append(@, "linefault")],
                           "fault_detected")
               ELSE s1
       ELSE s

transmit_resets_count(s, snap_frame) ==
    IF ~s.port THEN s
    ELSE LET s1 == IF ~session_is_active(s)
                   THEN session_begin(s, SESSION_ACTIVE_MASTER) ELSE s
             s2 == [s1 EXCEPT !.downlink_buffer = Write(snap_frame),
                              !.since_downlink = 0,
                              !.downlink_retransmit_count = 0]
             s3 == PortWrite(s2, s2.downlink_buffer, "transmit")
         IN [s3 EXCEPT !.message_counter = @ + 1]

transmit(s, snap_frame) ==
    IF ~s.port THEN s
    ELSE LET s1 == IF ~session_is_active(s)
                   THEN session_begin(s, SESSION_ACTIVE_MASTER) ELSE s
             s2 == [s1 EXCEPT !.downlink_buffer = Write(snap_frame),
                              !.since_downlink = 0]
             s3 == PortWrite(s2, s2.downlink_buffer, "transmit")
         IN [s3 EXCEPT !.message_counter = @ + 1]

\* The payload of DownlinkAlarm(on_off, (1, 1, loop_id), contents): its
\* first byte stands for the message type, 1 (alarm on) or 9 (alarm off)
DownlinkAlarm(on_off) == IF on_off THEN << 1, 128 >> ELSE << 9, 0 >>

send_generic_alarm(s, on_off) ==
    IF ~s.port THEN s ELSE transmit(s, DownlinkAlarm(on_off))

\* session_diagnostics that leaves a finished session FINISHED
session_diagnostics_keeps_finished(s) ==
    IF session_is_active(s)
    THEN IF s.since_downlink >= DOWNLINK_SILENCE
         THEN re_transmit(s, MESSAGE_STATE_NO_REPLY)
         ELSE s
    ELSE IF s.since_uplink >= UPLINK_SILENCE
         THEN send_enq(s) ELSE s

\* session_diagnostics with the port open (lines 116-125)
session_diagnostics(s) ==
    IF session_is_active(s)
    THEN IF s.since_downlink >= DOWNLINK_SILENCE
         THEN re_transmit(s, MESSAGE_STATE_NO_REPLY)
         ELSE s
    ELSE LET s1 == [s EXCEPT !.session_state = SESSION_IDLE]
         IN IF s1.since_uplink >= UPLINK_SILENCE
            THEN send_enq(s1) ELSE s1

ControlChars == {ACK, NAK, EOT, ENQ}

check_control_char_eot_ignored(s, data) ==
    IF data = << >> THEN [s |-> s, is_cchar |-> FALSE]
    ELSE IF data[1] = ACK THEN [s |-> session_finish(s), is_cchar |-> TRUE]
    ELSE IF data[1] = NAK
    THEN [s |-> re_transmit(s, MESSAGE_STATE_NACKED), is_cchar |-> TRUE]
    ELSE IF data[1] = EOT THEN [s |-> s, is_cchar |-> TRUE]
    ELSE IF data[1] = ENQ
    THEN [s |-> session_finish(send_eot(s)), is_cchar |-> TRUE]
    ELSE [s |-> s, is_cchar |-> FALSE]

\* check_control_char: the port after the handling of data[0], and is_cchar
check_control_char(s, data) ==
    IF data = << >> THEN [s |-> s, is_cchar |-> FALSE]
    ELSE IF data[1] = ACK THEN [s |-> session_finish(s), is_cchar |-> TRUE]
    ELSE IF data[1] = NAK
    THEN [s |-> re_transmit(s, MESSAGE_STATE_NACKED), is_cchar |-> TRUE]
    ELSE IF data[1] = EOT THEN [s |-> session_finish(s), is_cchar |-> TRUE]
    ELSE IF data[1] = ENQ
    THEN [s |-> session_finish(send_eot(s)), is_cchar |-> TRUE]
    ELSE [s |-> s, is_cchar |-> FALSE]

\* on_message_hhl / on_message_prodex: the classifier is given the message
on_message(s, snap_frame) ==
    [s EXCEPT !.dispatched = Append(@, snap_frame)]

\* "not snap_frame": None, and the empty bytearray as well
FrameIsFalsy(r) == ~r.parsed \/ r.frame = << >>

\* The branch of a returned frame (lines 230-243): valid tells whether the
\* SNAP message was not empty.
on_frame(s, snap_frame) ==
    LET s1 == IF ~session_is_active(s)
              THEN session_begin(s, SESSION_ACTIVE_CLIENT) ELSE s
        nonempty == ~SnapEmpty(snap_frame)
        s2 == IF nonempty THEN on_message(s1, snap_frame) ELSE s1
    IN [s |-> send_ack(s2), valid |-> nonempty]

on_overrun_no_finish(s) == send_nak(ClearRxBuffer(s))

\* The buffer overrun branch (lines 221-228)
on_overrun(s) == session_finish(send_nak(ClearRxBuffer(s)))

\* What the loop does with the result r of one pass (lines 214-243), s
\* being the port after check_control_char: the values of the loop's
\* variables after the pass.
on_receive_branch(s, data, valid_msg_parsed, r) ==
    LET s1 == IF r.consumed # 0 THEN ConsumeRxBuffer(s, r.consumed) ELSE s
        data1 == IF r.consumed # 0 THEN s1.rx_buffer ELSE data
    IN IF r.nack
       THEN [s |-> send_nak(s1), data |-> data1, consumed |-> r.consumed,
             valid_msg_parsed |-> valid_msg_parsed]
       ELSE IF FrameIsFalsy(r)
       THEN [s |-> IF r.consumed = 0 /\ Len(data1) >= RX_BUFFER_MAX_LEN
                   THEN on_overrun(s1) ELSE s1,
             data |-> data1, consumed |-> r.consumed,
             valid_msg_parsed |-> valid_msg_parsed]
       ELSE [s |-> on_frame(s1, r.frame).s, data |-> data1,
             consumed |-> r.consumed,
             valid_msg_parsed |->
                 valid_msg_parsed \/ on_frame(s1, r.frame).valid]

\* One pass of the while loop (lines 208-243): a control byte at the head
\* of data counts as a result (1, False, None) and as a valid event, any
\* other head is given to Parse.
on_receive_pass(s, data, valid_msg_parsed) ==
    Only(UNION {
        {on_receive_branch(cc.s, data, valid_msg_parsed \/ cc.is_cchar, r) :
            r \in {IF cc.is_cchar THEN Result(1, FALSE, FALSE, << >>)
                   ELSE Parse(data)}} :
        cc \in {check_control_char(s, data)}})

\* The while loop of on_receive (lines 207-243)
RECURSIVE on_receive_loop(_, _, _, _)
on_receive_loop(s, data, consumed, valid_msg_parsed) ==
    IF consumed = 0 \/ Len(data) = 0
    THEN [s |-> s, data |-> data, valid_msg_parsed |-> valid_msg_parsed]
    ELSE Only({on_receive_loop(n.s, n.data, n.consumed, n.valid_msg_parsed) :
                  n \in {on_receive_pass(s, data, valid_msg_parsed)}})

\* The end of on_receive after a valid uplink event (lines 251-258)
uplink_event_keep_fault(s) ==
    LET s1 == [s EXCEPT !.since_uplink = 0]
    IN IF InList("linefault", s1.active_faults)
          \/ ~s1.line_fault_over_msg_sent
       THEN Notify([s1 EXCEPT !.line_fault_over_msg_sent = TRUE],
                   "fault_over")
       ELSE s1

uplink_event_always_notifies(s) ==
    LET s1 == [s EXCEPT !.since_uplink = 0]
    IN Notify([s1 EXCEPT
                  !.active_faults =
                      IF InList("linefault", @)
                      THEN ListRemove(@, "linefault") ELSE @,
                  !.line_fault_over_msg_sent = TRUE],
              "fault_over")

uplink_event(s) ==
    LET s1 == [s EXCEPT !.since_uplink = 0]
    IN IF InList("linefault", s1.active_faults)
          \/ ~s1.line_fault_over_msg_sent
       THEN Notify([s1 EXCEPT
                       !.active_faults =
                           IF InList("linefault", @)
                           THEN ListRemove(@, "linefault") ELSE @,
                       !.line_fault_over_msg_sent = TRUE],
                   "fault_over")
       ELSE s1

\* on_receive_end that leaves the session as the loop left it
on_receive_end_keeps_session(l) ==
    IF l.valid_msg_parsed THEN uplink_event(l.s) ELSE l.s

\* The end of on_receive (lines 245-258), l being the outcome of the loop
on_receive_end(l) ==
    LET s1 == IF Len(l.data) = 0 THEN session_finish(l.s) ELSE l.s
    IN IF l.valid_msg_parsed THEN uplink_event(s1) ELSE s1

\* on_receive(data), data being the receive buffer
on_receive(s, data) ==
    Only({on_receive_end(l) : l \in {on_receive_loop(s, data, 1, FALSE)}})

(***************************************************************************)
(* The inputs of the port                                                  *)
(***************************************************************************)
MaxMessages == 2
MaxChunks == 2
MaxCount == 2

\* frame[i] = v
SetByte(frame, i, v) ==
    [k \in 1..Len(frame) |-> IF k = i + 1 THEN v ELSE frame[k]]

\* b ^ (1 << k)
FlipBit(b, k) ==
    IF (b \div Pow2(k)) % 2 = 1 THEN b - Pow2(k) ELSE b + Pow2(k)

\* Payloads given to Transmit (snap_msg.write())
TxFrames == { << 1, 128 >>, << 9, 0 >> }

\* An uplink frame with a SNAP message, one whose SNAP decode is empty, and
\* the frame of the empty payload
UpFrame == Write(<< 1, 128 >>)
UpFrameSnapEmpty == Write(<< 7 >>)
UpFrameNoPayload == Write(<< >>)

\* The offset of ETX in a frame Write made
EtxOffset(frame) == Len(frame) - 5

BadChecksum(frame) ==
    SetByte(frame, EtxOffset(frame) + 2,
            FlipBit(At(frame, EtxOffset(frame) + 2), 0))

Chunks ==
    { << ACK >>, << NAK >>, << ENQ >>, << EOT >>, << NAK, NAK >>,
      UpFrame, UpFrameSnapEmpty, UpFrameNoPayload,
      UpFrame \o << NAK >>,
      UpFrame \o UpFrame,
      BadChecksum(UpFrame),
      BadChecksum(UpFrame) \o UpFrame,
      Take(UpFrame, 6), Drop(UpFrame, 6) }

\* Time passes in steps of 5 s
AdvanceSteps == {DIAGNOSTICS_INTERVAL}

Cap(n, max) == IF n > max THEN max ELSE n

(***************************************************************************)
(* History of the run, kept for the statements below                       *)
(***************************************************************************)
\* What the repeated parse of on_receive meets in a buffer: the control
\* bytes at its head, the frames Parse returns, the NAK-worthy blocks, and
\* the rest of the buffer when Parse consumes nothing.
UplinkEvent(r) ==
    [kind |-> IF r.nack THEN "nack"
              ELSE IF r.parsed THEN "frame" ELSE "skip",
     frame |-> r.frame]

RECURSIVE UplinkEvents(_)
UplinkEvents(data) ==
    IF data = << >> THEN << >>
    ELSE IF data[1] \in ControlChars
    THEN << [kind |-> "control", frame |-> << data[1] >>] >>
            \o UplinkEvents(Tail(data))
    ELSE Only({IF r.consumed = 0
               THEN << [kind |-> "rest", frame |-> data] >>
               ELSE << UplinkEvent(r) >>
                       \o Only({UplinkEvents(rest) :
                                   rest \in {Drop(data, r.consumed)}}) :
               r \in {Parse(data)}})

\* One pass of the loop of on_receive on a control byte: the session before
\* it (s) and after it (n), the bytes it took from the buffer and what it
\* wrote to the port
ControlPass(char, s, n, consumed) ==
    [char |-> char,
     state |-> s.session_state,
     slot |-> s.downlink_buffer,
     count |-> s.downlink_retransmit_count,
     to_state |-> n.session_state,
     to_slot |-> n.downlink_buffer,
     to_count |-> n.downlink_retransmit_count,
     faults |-> s.active_faults,
     to_faults |-> n.active_faults,
     notified |-> Drop(n.notified, Len(s.notified)),
     consumed |-> consumed,
     wrote |-> [k \in 1..(Len(n.written) - Len(s.written)) |->
                   n.written[Len(s.written) + k].bytes]]

\* The passes on control bytes of on_receive(data) on the port s, in order
RECURSIVE ControlPasses(_, _, _)
ControlPasses(s, data, consumed) ==
    IF consumed = 0 \/ Len(data) = 0 THEN << >>
    ELSE Only({(IF data[1] \in ControlChars
                THEN << ControlPass(data[1], s, n.s,
                                    Len(data) - Len(n.data)) >>
                ELSE << >>)
                   \o ControlPasses(n.s, n.data, n.consumed) :
               n \in {on_receive_pass(s, data, FALSE)}})

IsValidEvent(e) ==
    e.kind = "control" \/ (e.kind = "frame" /\ ~SnapEmpty(e.frame))

NumValid(events) ==
    Cardinality({k \in 1..Len(events) : IsValidEvent(events[k])})

NumKind(events, kind) ==
    Cardinality({k \in 1..Len(events) : events[k].kind = kind})

\* Parse returned consumed = 0 on RX_BUFFER_MAX_LEN bytes or more
HasOverrun(events) ==
    \E k \in 1..Len(events) :
        /\ events[k].kind = "rest"
        /\ Len(events[k].frame) >= RX_BUFFER_MAX_LEN

NumVia(w, via) == Cardinality({k \in 1..Len(w) : w[k].via = via})

\* Calls of send_ack, send_nak, ... by the handler
NumSent(w, char) ==
    Cardinality({k \in 1..Len(w) :
                    w[k].via = "control" /\ w[k].bytes = << char >>})

\* Single bytes of that value written to the port
NumOnWire(w, char) ==
    Cardinality({k \in 1..Len(w) : w[k].bytes = << char >>})

IsAckOrNak(e) == e.bytes = << ACK >> \/ e.bytes = << NAK >>

\* The ACK and NAK bytes written to the port, in order
AcksAndNaks(w) ==
    LET sel == SelectSeq(w, IsAckOrNak)
    IN [k \in 1..Len(sel) |-> sel[k].bytes[1]]

\* A call of re_transmit: no call has cause 0
NoCall == [cause |-> 0, count |-> 0]

\* The call of re_transmit a diagnostic makes (lines 117-119)
TickCall ==
    IF session_is_active(Self) /\ since_downlink >= DOWNLINK_SILENCE
    THEN [cause |-> MESSAGE_STATE_NO_REPLY,
          count |-> downlink_retransmit_count]
    ELSE NoCall

\* The call of re_transmit, for a NAK, during which linefault was added
NakCall(passes) ==
    LET added == {k \in 1..Len(passes) :
                     /\ passes[k].char = NAK
                     /\ ~InList("linefault", passes[k].faults)
                     /\ InList("linefault", passes[k].to_faults)}
    IN IF added = {} THEN NoCall
       ELSE [cause |-> MESSAGE_STATE_NACKED,
             count |-> passes[SetMin(added)].count]

HistInit ==
    [ever_received |-> FALSE,
     \* an on_receive has met a valid uplink event; rx_first: the last
     \* handler was the first on_receive that did
     seen_valid |-> FALSE,
     rx_first |-> FALSE,
     \* fault-detected notifications while no byte was ever received
     silent_faults |-> 0,
     \* linefault was active when the last on_receive started
     pre_linefault |-> FALSE,
     \* a session was active with a slot that is not empty when the last
     \* on_receive started
     pre_outstanding |-> FALSE,
     \* Since the last Transmit on the open port, while nothing was received
     \* and the retransmissions are not exhausted.  tx_fresh: the Transmit
     \* found a retransmit count of 0.  rewrites: writes of the slot by
     \* re_transmit.  tx_done: the last diagnostic ran 4.5 s or more after
     \* the last downlink event and did not rewrite the slot.  periodic:
     \* every handler since was a diagnostic that came 5 s after the handler
     \* before it; ticks counts them; due: 5 s have passed since the last.
     tx_silent |-> FALSE,
     \* the payload the last handler, a Transmit, was given
     tx_msg |-> << >>,
     tx_fresh |-> FALSE,
     tx_done |-> FALSE,
     rewrites |-> 0,
     periodic |-> FALSE,
     due |-> FALSE,
     ticks |-> 0,
     \* chunks received since the receive buffer was last empty
     rx_chunks |-> 0,
     \* the buffer the last on_receive worked on
     rx_kind |-> "none",
     rx_valid |-> 0,
     rx_frames |-> 0,
     rx_nacks |-> 0,
     rx_overrun |-> FALSE,
     rx_passes |-> << >>,
     \* While linefault is active: the call of re_transmit that added it
     \* (its cause and the retransmit count it found), and whether
     \* on_receive has sent an ACK for a frame, and has met a valid uplink
     \* event, since
     fault_by |-> NoCall,
     acked_since |-> FALSE,
     valid_since |-> FALSE,
     \* The notifications of the run, in order, in the runs that record
     \* them (noting): the last one ("none" before the first), whether a
     \* fault-detected ever followed a fault-detected with no fault-over
     \* between, and the number of fault-detected minus the number of
     \* fault-over, kept within -MaxCount..MaxCount
     noting |-> FALSE,
     note_last |-> "none",
     note_twice |-> FALSE,
     note_balance |-> 0]

\* The history after one notification
NoteOne(h, what) ==
    IF what = "fault_detected"
    THEN [h EXCEPT !.note_twice = @ \/ h.note_last = "fault_detected",
                   !.note_last = what,
                   !.note_balance = Cap(@ + 1, MaxCount)]
    ELSE [h EXCEPT !.note_last = what,
                   !.note_balance = -Cap(1 - @, MaxCount)]

\* The history after the notifications of a handler, in order
RECURSIVE NoteFold(_, _)
NoteFold(h, notes) ==
    IF notes = << >> \/ ~h.noting THEN h
    ELSE NoteFold(NoteOne(h, Head(notes)), Tail(notes))

\* The part of the history every step updates
HistStep(h, s) ==
    [NoteFold(h, s.notified) EXCEPT
        !.silent_faults =
            IF h.ever_received THEN 0
            ELSE Cap(@ + Count(s.notified, "fault_detected"), MaxCount),
        !.pre_linefault = FALSE,
        !.pre_outstanding = FALSE,
        !.rx_first = FALSE,
        !.tx_msg = << >>,
        !.rx_kind = "none", !.rx_valid = 0, !.rx_frames = 0,
        !.rx_nacks = 0, !.rx_overrun = FALSE, !.rx_passes = << >>]

\* The history of linefault after a handler that left the port as s: call
\* is the call of re_transmit the handler made, acks and valid the ACKs it
\* sent for frames and the valid uplink events it met
HistFault(h, s, call, acks, valid) ==
    IF ~InList("linefault", s.active_faults)
    THEN [h EXCEPT !.fault_by = NoCall, !.acked_since = FALSE,
                   !.valid_since = FALSE]
    ELSE IF ~InList("linefault", active_faults)
    THEN [h EXCEPT !.fault_by = call, !.acked_since = FALSE,
                   !.valid_since = FALSE]
    ELSE [h EXCEPT !.acked_since = @ \/ acks > 0,
                   !.valid_since = @ \/ valid > 0]

HistNoTx(h) ==
    [h EXCEPT !.tx_silent = FALSE, !.tx_fresh = FALSE, !.tx_done = FALSE,
              !.rewrites = 0, !.periodic = FALSE, !.due = FALSE,
              !.ticks = 0]

(***************************************************************************)
(* The port as a state machine                                             *)
(***************************************************************************)
NoInput == [kind |-> "none", p |-> << >>, g |-> << >>, at |-> 0, val |-> 0]

CodecIdle ==
    /\ c_in = NoInput
    /\ c_pending = << >>
    /\ c_buf = << >>
    /\ c_results = << >>
    /\ c_parsing = FALSE

\* AlpPort.__init__: the port may fail to open
PortFields ==
    /\ port \in BOOLEAN
    /\ diag_timer = port
    /\ session_state = SESSION_IDLE
    /\ downlink_buffer = << >>
    /\ downlink_retransmit_count = 0
    /\ since_downlink = 0
    /\ since_uplink = 0
    /\ active_faults = << >>
    /\ line_fault_over_msg_sent = FALSE
    /\ message_counter = 0
    /\ rx_buffer = << >>
    /\ last_op = "init"
    /\ written = << >>
    /\ notified = << >>
    /\ dispatched = << >>

PortInit == PortFields /\ hist = HistInit

\* No message was given to the classifier
NoMsg == [system_id |-> 0, service_class |-> 0, message_type |-> 0,
          loop_id |-> 0]

MsgIdle ==
    /\ m_msg = NoMsg
    /\ m_alarms = << >>
    /\ m_done = FALSE

Init == PortInit /\ CodecIdle /\ MsgIdle

\* transmit(snap_msg)
Transmit(snap_frame) ==
    /\ message_counter < MaxMessages
    /\ \E s \in {transmit(Self, snap_frame)} :
       LET h == HistFault(HistStep(hist, s), s, NoCall, 0, 0)
       IN /\ Store(s)
          /\ hist' = IF port
                     THEN [h EXCEPT !.tx_silent = TRUE,
                                    !.tx_msg = snap_frame,
                                    !.tx_fresh =
                                        (downlink_retransmit_count = 0),
                                    !.tx_done = FALSE,
                                    !.rewrites = 0,
                                    !.periodic = TRUE, !.due = FALSE,
                                    !.ticks = 0]
                     ELSE [HistNoTx(h) EXCEPT !.tx_msg = snap_frame]
    /\ last_op' = "transmit"
    /\ UNCHANGED << port, diag_timer, codecVars, msgVars >>

\* The timer callback session_diagnostics
Tick ==
    /\ diag_timer
    /\ IF ~port
       THEN /\ diag_timer' = FALSE
            /\ Store(Self)
            /\ hist' = HistNoTx(HistStep(hist, Self))
       ELSE \E s \in {session_diagnostics(Self)} :
            LET h == HistFault(HistStep(hist, s), s, TickCall, 0, 0)
                n == NumVia(s.written, "retransmit")
                on_time == hist.periodic /\ hist.due
            IN /\ diag_timer' = diag_timer
               /\ Store(s)
               /\ hist' =
                    IF hist.tx_silent /\ ~hist.tx_done
                    THEN [h EXCEPT
                            !.rewrites = @ + n,
                            !.tx_done =
                                (since_downlink >= DOWNLINK_SILENCE /\ n = 0),
                            !.periodic = on_time,
                            !.due = FALSE,
                            !.ticks = IF on_time THEN @ + 1 ELSE 0]
                    ELSE HistNoTx(h)
    /\ last_op' = "tick"
    /\ UNCHANGED << port, codecVars, msgVars >>

\* Time passes between two handlers of the open port
Advance(d) ==
    /\ port
    /\ since_downlink' = Cap(since_downlink + d, DOWNLINK_SILENCE)
    /\ since_uplink' = Cap(since_uplink + d, UPLINK_SILENCE)
    /\ LET h == HistStep(hist, Self)
       IN hist' = IF h.tx_silent /\ h.periodic
                  THEN IF h.due
                       THEN [h EXCEPT !.periodic = FALSE, !.due = FALSE,
                                      !.ticks = 0]
                       ELSE [h EXCEPT !.due = TRUE]
                  ELSE h
    /\ last_op' = "advance"
    /\ written' = << >>
    /\ notified' = << >>
    /\ dispatched' = << >>
    /\ UNCHANGED << port, diag_timer, session_state, downlink_buffer,
                    downlink_retransmit_count, active_faults,
                    line_fault_over_msg_sent, message_counter, rx_buffer,
                    codecVars, msgVars >>

\* The port hands a chunk over: it is appended to the receive buffer and
\* on_receive runs on the buffer
Receive(chunk, kind) ==
    /\ port
    /\ hist.rx_chunks < MaxChunks
    /\ \E data \in {rx_buffer \o chunk} :
       \E s \in {on_receive([Self EXCEPT !.rx_buffer = data], data)},
          events \in {UplinkEvents(data)},
          passes \in {ControlPasses([Self EXCEPT !.rx_buffer = data],
                                    data, 1)} :
       LET h == HistFault(HistNoTx(HistStep(hist, s)), s, NakCall(passes),
                          NumSent(s.written, ACK), NumValid(events))
       IN /\ Store(s)
          /\ hist' = [h EXCEPT !.ever_received = TRUE,
                               !.seen_valid = @ \/ NumValid(events) >= 1,
                               !.rx_first = ~hist.seen_valid
                                               /\ NumValid(events) >= 1,
                               !.silent_faults = 0,
                               !.pre_linefault =
                                   InList("linefault", active_faults),
                               !.pre_outstanding =
                                   session_is_active(Self)
                                       /\ downlink_buffer # << >>,
                               !.rx_chunks = IF s.rx_buffer = << >>
                                             THEN 0 ELSE @ + 1,
                               !.rx_kind = IF rx_buffer = << >>
                                           THEN kind ELSE "chunk",
                               !.rx_valid = NumValid(events),
                               !.rx_frames = NumKind(events, "frame"),
                               !.rx_nacks = NumKind(events, "nack"),
                               !.rx_overrun = HasOverrun(events),
                               !.rx_passes = passes]
    /\ last_op' = "receive"
    /\ UNCHANGED << port, diag_timer, codecVars, msgVars >>

\* The serial port is closed
Close ==
    /\ port
    /\ port' = FALSE
    /\ hist' = HistNoTx(HistStep(hist, Self))
    /\ last_op' = "close"
    /\ written' = << >>
    /\ notified' = << >>
    /\ dispatched' = << >>
    /\ UNCHANGED << diag_timer, session_state, downlink_buffer,
                    downlink_retransmit_count, since_downlink, since_uplink,
                    active_faults, line_fault_over_msg_sent,
                    message_counter, rx_buffer, codecVars, msgVars >>

Next ==
    \/ \E f \in TxFrames : Transmit(f)
    \/ Tick
    \/ \E d \in AdvanceSteps : Advance(d)
    \/ \E c \in Chunks : Receive(c, "chunk")
    \/ Close

Spec == Init /\ [][Next]_vars

(***************************************************************************)
(* Corrupt frames in front of a valid one                                  *)
(***************************************************************************)
\* Byte values outside 0x30..0x3F
OutOfRange == {0, SOH, ETX, NAK, 47, 64, 255}

\* A byte outside 0x30..0x3F put at offset i of the data field: ETX or NAK
\* as the first byte of a pair are kinds of their own
NibbleKind(i, v) ==
    IF (i - 4) % 2 = 0 /\ v = ETX THEN "nibble_etx"
    ELSE IF (i - 4) % 2 = 0 /\ v = NAK THEN "nibble_nak"
    ELSE "nibble"

Corrupted ==
    LET e == EtxOffset(UpFrame)
    IN {[kind |-> "checksum",
         bytes |-> SetByte(UpFrame, e + k, FlipBit(At(UpFrame, e + k), b))] :
            k \in 1..2, b \in {0, 4}}
       \cup
       {[kind |-> "parity",
         bytes |-> SetByte(UpFrame, e + k, FlipBit(At(UpFrame, e + k), b))] :
            k \in 3..4, b \in {0, 4}}
       \cup
       {[kind |-> NibbleKind(i, v), bytes |-> SetByte(UpFrame, i, v)] :
            i \in 4..(e - 1), v \in OutOfRange \cup ControlChars}
       \cup
       {[kind |-> "nibble_etx",
         bytes |-> SetByte(Write(<< 0, 0, 0 >>), 4, ETX)]}
       \cup
       {[kind |-> "stx", bytes |-> SetByte(UpFrame, 3, v)] :
            v \in {0, ETX, 48}}
       \cup
       {[kind |-> "truncated", bytes |-> Take(UpFrame, k)] :
            k \in 5..(e - 1)}

CorruptThenValid ==
    {[kind |-> c.kind, bytes |-> c.bytes \o UpFrame] : c \in Corrupted}

CorruptKinds ==
    {"checksum", "parity", "nibble", "nibble_etx", "nibble_nak", "stx",
     "truncated"}

NextReceive ==
    \/ \E f \in TxFrames : Transmit(f)
    \/ Tick
    \/ \E d \in AdvanceSteps : Advance(d)
    \/ \E c \in CorruptThenValid : Receive(c.bytes, c.kind)

SpecReceive == Init /\ [][NextReceive]_vars

(***************************************************************************)
(* The transmit operations called one by one, on the open and on the       *)
(* closed port                                                             *)
(***************************************************************************)
\* send_generic_alarm(on_off)
SendGenericAlarm(on_off) ==
    /\ message_counter < MaxMessages
    /\ \E s \in {send_generic_alarm(Self, on_off)} :
          /\ Store(s)
          /\ hist' = HistFault(HistNoTx(HistStep(hist, s)), s, NoCall, 0, 0)
    /\ last_op' = "alarm"
    /\ UNCHANGED << port, diag_timer, codecVars, msgVars >>

\* send_ack(), send_nak(), send_enq(), send_eot()
SendControl(char) ==
    /\ \E s \in {transmit_control_char(Self, char)} :
          /\ Store(s)
          /\ hist' = HistFault(HistNoTx(HistStep(hist, s)), s, NoCall, 0, 0)
    /\ last_op' = "control"
    /\ UNCHANGED << port, diag_timer, codecVars, msgVars >>

\* re_transmit(message_state)
ReTransmit(message_state) ==
    /\ \E s \in {re_transmit(Self, message_state)} :
          /\ Store(s)
          /\ hist' = HistFault(HistNoTx(HistStep(hist, s)), s,
                               [cause |-> message_state,
                                count |-> downlink_retransmit_count],
                               0, 0)
    /\ last_op' = "retransmit"
    /\ UNCHANGED << port, diag_timer, codecVars, msgVars >>

NextOps ==
    \/ \E f \in TxFrames : Transmit(f)
    \/ \E on_off \in BOOLEAN : SendGenericAlarm(on_off)
    \/ \E c \in ControlChars : SendControl(c)
    \/ \E m \in {MESSAGE_STATE_NACKED, MESSAGE_STATE_NO_REPLY} :
          ReTransmit(m)
    \/ Tick
    \/ \E d \in AdvanceSteps : Advance(d)
    \/ Close

SpecOps == Init /\ [][NextOps]_vars

(***************************************************************************)
(* Control bytes at the head of the receive buffer                         *)
(***************************************************************************)
\* One or two control bytes, and frames that make the port a client: alone,
\* before a control byte, and before the beginning of another frame, which
\* stays in the buffer
ControlChunks ==
    (SeqsUpTo(ControlChars, 2) \ {<< >>})
        \cup {UpFrame, UpFrame \o << ACK >>, UpFrame \o Take(UpFrame, 6)}

NextControl ==
    \/ \E f \in TxFrames : Transmit(f)
    \/ Tick
    \/ \E d \in AdvanceSteps : Advance(d)
    \/ \E c \in ControlChunks : Receive(c, "control")

SpecControl == Init /\ [][NextControl]_vars

(***************************************************************************)
(* The poll of a silent peer: time in steps of 0.5 s and of 5 s            *)
(***************************************************************************)
PollSteps == {1, DIAGNOSTICS_INTERVAL}

PollChunks == {<< ACK >>, UpFrame}

NextPoll ==
    \/ Tick
    \/ \E d \in PollSteps : Advance(d)
    \/ \E c \in PollChunks : Receive(c, "chunk")

SpecPoll == Init /\ [][NextPoll]_vars

(***************************************************************************)
(* Runs that record the order of the notifications                         *)
(***************************************************************************)
InitNotes ==
    /\ PortFields
    /\ hist = [HistInit EXCEPT !.noting = TRUE]
    /\ CodecIdle
    /\ MsgIdle

SpecNotes == InitNotes /\ [][NextControl]_vars

(***************************************************************************)
(* A frame that never ends: the receive buffer grows to RX_BUFFER_MAX_LEN  *)
(***************************************************************************)
\* A frame start and data without ETX, RX_BUFFER_MAX_LEN bytes in all
BigPartial ==
    << SOH, PI1, PI2, STX >> \o [k \in 1..(RX_BUFFER_MAX_LEN - 4) |-> 48]

OverrunChunks ==
    { BigPartial,
      Take(BigPartial, RX_BUFFER_MAX_LEN - 1),
      << 48 >>,
      << 97 >> \o BigPartial,
      BadChecksum(UpFrame) \o BigPartial,
      UpFrame \o BigPartial }

\* The handlers follow one another within the 4.5 s of silence
NextOverrun ==
    \/ \E f \in TxFrames : Transmit(f)
    \/ Tick
    \/ \E c \in OverrunChunks : Receive(c, "chunk")

SpecOverrun == Init /\ [][NextOverrun]_vars

(***************************************************************************)
(* A receiver of the codec alone: it appends the chunks of an input to its *)
(* buffer and, after each, applies Parse and drops the consumed bytes      *)
(* until Parse consumes nothing or the buffer is empty.                    *)
(***************************************************************************)
PayloadBytes == {0, 1, 128, 255}
Payloads == SeqsUpTo(PayloadBytes, MaxPayloadLen)

GarbageBytes == {SOH, PI1, PI2, STX, 97}
GarbagePayloads == {<< >>, << 1 >>, << 1, 128 >>}

\* Write(p)
WriteInputs ==
    {[in |-> [kind |-> "write", p |-> p, g |-> << >>, at |-> 0, val |-> 0],
      chunks |-> << Write(p) >>] : p \in Payloads}

\* Write(p) with bit val of the trailer byte at offset at flipped
FlipInputs ==
    {[in |-> [kind |-> "flip", p |-> p, g |-> << >>,
              at |-> EtxOffset(Write(p)) + k, val |-> b],
      chunks |-> << SetByte(Write(p), EtxOffset(Write(p)) + k,
                            FlipBit(At(Write(p), EtxOffset(Write(p)) + k),
                                    b)) >>] :
        p \in Payloads, k \in 1..4, b \in 0..7}

\* Write(p) with the byte at offset at of the data field replaced by val
NibbleInputs ==
    UNION {
        {[in |-> [kind |-> "nibble", p |-> p, g |-> << >>, at |-> i,
                  val |-> v],
          chunks |-> << SetByte(Write(p), i, v) >>] :
            i \in 4..(3 + 2 * Len(p)), v \in OutOfRange} :
        p \in Payloads \ {<< >>}}

\* g1 || Write(p) || g2, with val = |g2|
GarbageInputs ==
    {[in |-> [kind |-> "garbage", p |-> p, g |-> g1, at |-> 0,
              val |-> Len(g2)],
      chunks |-> << g1 \o Write(p) \o g2 >>] :
        p \in GarbagePayloads,
        g1 \in SeqsUpTo(GarbageBytes, MaxGarbageLen),
        g2 \in SeqsUpTo(GarbageBytes, 1)}

\* g || Write(p), g without SOH, delivered as its first at bytes and the rest
ChunkedInputs ==
    UNION {
        {[in |-> [kind |-> "chunked", p |-> p, g |-> g, at |-> k,
                  val |-> 0],
          chunks |-> << Take(g \o Write(p), k), Drop(g \o Write(p), k) >>] :
            k \in 0..Len(g \o Write(p))} :
        p \in {<< >>, << 1, 128 >>},
        g \in SeqsUpTo(GarbageBytes \ {SOH}, 2)}

CodecInputs ==
    WriteInputs \cup FlipInputs \cup NibbleInputs \cup GarbageInputs
        \cup ChunkedInputs

InitCodec ==
    /\ PortInit
    /\ MsgIdle
    /\ port = FALSE
    /\ \E input \in CodecInputs :
          /\ c_in = input.in
          /\ c_pending = input.chunks
    /\ c_buf = << >>
    /\ c_results = << >>
    /\ c_parsing = FALSE

\* The next chunk arrives
CodecAppend ==
    /\ ~c_parsing
    /\ c_pending # << >>
    /\ c_buf' = c_buf \o Head(c_pending)
    /\ c_pending' = Tail(c_pending)
    /\ c_parsing' = (c_buf' # << >>)
    /\ UNCHANGED << c_in, c_results, portVars, obsVars, msgVars >>

\* One call of Parse on the buffer
CodecParse ==
    /\ c_parsing
    /\ \E r \in {Parse(c_buf)} :
          /\ c_results' = Append(c_results, r)
          /\ c_buf' = Drop(c_buf, r.consumed)
          /\ c_parsing' = (r.consumed # 0 /\ c_buf' # << >>)
    /\ UNCHANGED << c_in, c_pending, portVars, obsVars, msgVars >>

NextCodec == CodecAppend \/ CodecParse

SpecCodec == InitCodec /\ [][NextCodec]_vars

\* Every chunk was delivered and parsed
CodecDone == c_in.kind # "none" /\ c_pending = << >> /\ ~c_parsing

\* The calls of Parse that returned the payload p as a frame
NumDecoded(results, p) ==
    Cardinality({k \in 1..Len(results) :
                    results[k].parsed /\ results[k].frame = p})

NumNacks(results) ==
    Cardinality({k \in 1..Len(results) : results[k].nack})

(***************************************************************************)
(* The prodex classifier                                                   *)
(***************************************************************************)
\* "{}".format(n): the decimal digits of n
RECURSIVE Format(_)
Format(n) ==
    IF n < 10 THEN << n >> ELSE Append(Format(n \div 10), n % 10)

\* UplinkAlarm(port_number, snap_msg).data: the fields the classifiers set
UplinkAlarm(snap_msg) ==
    [serviceClass |-> Format(snap_msg.service_class),
     msgType |-> Format(snap_msg.message_type),
     systemId |-> Format(snap_msg.system_id),
     loopId |-> Format(snap_msg.loop_id)]

\* send_cloud_alarm(data, content): one record for the alarm sink
send_cloud_alarm(data, content) ==
    [data |-> data, content |-> content]

\* on_message_prodex with the case of system 682, class 12 enabled
on_message_prodex_682(msg) ==
    LET type19 == msg.message_type \in {1, 9}
        forward(content, m) ==
            << send_cloud_alarm(UplinkAlarm(m), content) >>
    IN IF msg.system_id = 680 /\ msg.service_class = 10 /\ type19
       THEN forward("Palohalytys (ryhma)", [msg EXCEPT !.loop_id = 1])
       ELSE IF msg.system_id = 681 /\ msg.service_class = 11 /\ type19
       THEN forward("Ennakkohalytys (ryhma)",
                    [msg EXCEPT !.loop_id = 3,
                                !.message_type = IF @ = 1 THEN 8 ELSE @])
       ELSE IF msg.system_id = 682 /\ msg.service_class = 12 /\ type19
       THEN forward("Silmukkavika",
                    [msg EXCEPT !.loop_id = 2,
                                !.message_type = IF @ = 1 THEN 2 ELSE @])
       ELSE IF msg.system_id = 688 /\ msg.service_class = 1 /\ type19
       THEN forward("Keskuksen linjahalytys",
                    [msg EXCEPT !.loop_id = 0,
                                !.message_type = IF @ = 1 THEN 3 ELSE @])
       ELSE IF msg.system_id = 689 /\ msg.service_class = 1 /\ type19
       THEN forward("Palohalytys", [msg EXCEPT !.loop_id = 1])
       ELSE << >>

\* on_message_prodex(msg): the records sent to the alarm sink, none when the
\* message is discarded
on_message_prodex(msg) ==
    LET type19 == msg.message_type \in {1, 9}
        forward(content, m) ==
            << send_cloud_alarm(UplinkAlarm(m), content) >>
    IN IF msg.system_id = 680 /\ msg.service_class = 10 /\ type19
       THEN forward("Palohalytys (ryhma)", [msg EXCEPT !.loop_id = 1])
       ELSE IF msg.system_id = 681 /\ msg.service_class = 11 /\ type19
       THEN forward("Ennakkohalytys (ryhma)",
                    [msg EXCEPT !.loop_id = 3,
                                !.message_type = IF @ = 1 THEN 8 ELSE @])
       ELSE IF msg.system_id = 688 /\ msg.service_class = 1 /\ type19
       THEN forward("Keskuksen linjahalytys",
                    [msg EXCEPT !.loop_id = 0,
                                !.message_type = IF @ = 1 THEN 3 ELSE @])
       ELSE IF msg.system_id = 689 /\ msg.service_class = 1 /\ type19
       THEN forward("Palohalytys", [msg EXCEPT !.loop_id = 1])
       ELSE << >>

\* The messages given to the classifier: the systems of the table, the ones
\* of the cases that are commented out and two others, with the classes of
\* the table and others, and types around 1 and 9
ProdexSystemIds == {0, 679, 680, 681, 682, 684, 685, 687, 688, 689, 690}
ProdexServiceClasses == {0, 1, 10, 11, 12, 15, 91}
ProdexMessageTypes == {0, 1, 2, 3, 8, 9, 10}
ProdexLoopIds == {0, 1, 3, 7}

ProdexMessages ==
    [system_id : ProdexSystemIds, service_class : ProdexServiceClasses,
     message_type : ProdexMessageTypes, loop_id : ProdexLoopIds]

InitProdex ==
    /\ PortInit
    /\ port = FALSE
    /\ CodecIdle
    /\ m_msg \in ProdexMessages
    /\ m_alarms = << >>
    /\ m_done = FALSE

\* One call of on_message_prodex
ClassifyProdex ==
    /\ ~m_done
    /\ m_msg \in ProdexMessages
    /\ m_alarms' = m_alarms \o on_message_prodex(m_msg)
    /\ m_done' = TRUE
    /\ UNCHANGED << m_msg, portVars, obsVars, codecVars >>

NextProdex == ClassifyProdex

SpecProdex == InitProdex /\ [][NextProdex]_vars

(***************************************************************************)
(* Statements                                                              *)
(***************************************************************************)
LineFault == InList("linefault", active_faults)

\* C1: after a Transmit on the open port, while no byte was ever received,
\* the diagnostics rewrite the downlink slot at most RESEND_LIMIT times;
\* once a diagnostic that ran 4.5 s or more after the last downlink event
\* does not rewrite it, the session is FINISHED, linefault is active and
\* exactly one fault-detected notification has been emitted.
C1_RetransmitBound ==
    (hist.tx_silent /\ ~hist.ever_received) =>
        /\ hist.rewrites <= RESEND_LIMIT
        /\ hist.tx_done =>
              /\ session_state = SESSION_FINISHED
              /\ LineFault
              /\ hist.silent_faults = 1

C1_Witness ==
    /\ hist.tx_silent /\ ~hist.ever_received /\ hist.tx_done
    /\ hist.rewrites = RESEND_LIMIT
    /\ session_state = SESSION_FINISHED
    /\ LineFault
    /\ hist.silent_faults = 1

\* A Transmit that found a retransmit count of 0, no reply, and since then
\* one diagnostic per 5 s and nothing else
C2_Scenario == hist.tx_silent /\ hist.tx_fresh /\ hist.periodic

\* C2 as stated: after the 1st tick the slot was rewritten once and the
\* retransmit count is 1; after the 10th tick the session is FINISHED and
\* linefault is active.
C2_AsStated ==
    C2_Scenario =>
        /\ hist.ticks = 1 =>
              hist.rewrites = 1 /\ downlink_retransmit_count = 1
        /\ hist.ticks = RESEND_LIMIT =>
              session_state = SESSION_FINISHED /\ LineFault

\* C2, amended: after the 1st tick the slot was rewritten once and the
\* retransmit count is 1; after the 10th tick the slot was rewritten 10
\* times, the count is 10 and the session is still active; after the 11th
\* tick, which rewrites nothing, the session is FINISHED and linefault is
\* active.
C2_FinishOnEleventhTick ==
    C2_Scenario =>
        /\ hist.ticks = 1 =>
              hist.rewrites = 1 /\ downlink_retransmit_count = 1
        /\ hist.ticks = RESEND_LIMIT =>
              /\ hist.rewrites = RESEND_LIMIT
              /\ downlink_retransmit_count = RESEND_LIMIT
              /\ session_is_active(Self)
        /\ hist.ticks = RESEND_LIMIT + 1 =>
              /\ hist.rewrites = RESEND_LIMIT
              /\ session_state = SESSION_FINISHED
              /\ LineFault

C2_Witness ==
    /\ C2_Scenario
    /\ hist.ticks = RESEND_LIMIT + 1
    /\ last_op = "tick"
    /\ written = << >>
    /\ session_state = SESSION_FINISHED
    /\ LineFault

\* C3: when on_receive worked on a buffer with at least one valid uplink
\* event while linefault was active, linefault is absent on return and the
\* call emitted exactly one fault-over notification.
C3_FaultOverOncePerCall ==
    (last_op = "receive" /\ hist.pre_linefault /\ hist.rx_valid >= 1) =>
        /\ ~LineFault
        /\ Count(notified, "fault_over") = 1

C3_Witness ==
    /\ last_op = "receive" /\ hist.pre_linefault /\ hist.rx_valid >= 2
    /\ ~LineFault
    /\ Count(notified, "fault_over") = 1

C5_AsStated ==
    (c_in.kind = "flip" /\ c_results # << >>) =>
        c_results[1] =
            Result(EtxOffset(Write(c_in.p)) + 5, TRUE, FALSE, << >>)

\* C5, amended: a flip of one of the bits 0..3 of a trailer byte makes Parse
\* return (e + 5, true, none); a flip of one of the bits 4..7 takes the byte
\* out of 0x30..0x3F and makes Parse return (e, true, none).
C5_TrailerBitFlip ==
    (c_in.kind = "flip" /\ c_results # << >>) =>
        c_results[1] =
            Result(IF c_in.val <= 3 THEN EtxOffset(Write(c_in.p)) + 5
                   ELSE EtxOffset(Write(c_in.p)),
                   TRUE, FALSE, << >>)

C5_Witness ==
    /\ c_in.kind = "flip" /\ c_in.val = 7 /\ c_in.p # << >>
    /\ c_results # << >>
    /\ c_results[1] = Result(EtxOffset(Write(c_in.p)), TRUE, FALSE, << >>)

\* C6 as stated: with one byte of the data field of a valid frame replaced
\* by a value outside 0x30..0x3F, Parse returns nack = true and no frame,
\* and no call of Parse on the buffer returns a frame.
C6_AsStated ==
    (c_in.kind = "nibble" /\ c_results # << >>) =>
        /\ c_results[1].nack
        /\ \A k \in 1..Len(c_results) : ~c_results[k].parsed

\* ETX put as the first byte of a pair of the data field
C6_EtxAtPairStart == c_in.val = ETX /\ (c_in.at - 4) % 2 = 0

\* C6, amended: unless the value is ETX put as the first byte of a pair,
\* Parse returns nack = true and no frame, and no call of Parse on the
\* buffer returns a frame.  ETX as the first byte of a pair ends the data
\* field there: Parse returns nack = true, or else the payload decoded so
\* far as a frame when the four bytes after it are its checksum and parity.
C6_OutOfRangeNibble ==
    (c_in.kind = "nibble" /\ c_results # << >>) =>
        IF C6_EtxAtPairStart
        THEN \/ c_results[1].nack /\ ~c_results[1].parsed
             \/ /\ c_results[1].parsed /\ ~c_results[1].nack
                /\ c_results[1].frame =
                       Take(c_in.p, (c_in.at - 4) \div 2)
        ELSE /\ c_results[1].nack
             /\ \A k \in 1..Len(c_results) : ~c_results[k].parsed

C6_Witness ==
    /\ c_in.kind = "nibble" /\ c_in.val = SOH /\ c_in.at = 5
    /\ Len(c_in.p) = MaxPayloadLen
    /\ CodecDone
    /\ c_results[1] = Result(4, TRUE, FALSE, << >>)

\* C7 as stated: the repeated Parse of g1 || f || g2 returns the payload of
\* f as a frame exactly once.
C7_FrameInGarbage ==
    (c_in.kind = "garbage" /\ CodecDone) =>
        NumDecoded(c_results, c_in.p) = 1

\* C8 as stated: the receiver given g || f in two chunks, g without SOH,
\* gets the payload of f as a frame exactly once and never nack = true.
C8_ChunkedDelivery ==
    (c_in.kind = "chunked" /\ CodecDone) =>
        /\ NumDecoded(c_results, c_in.p) = 1
        /\ NumNacks(c_results) = 0

\* C9 as stated: on_receive sends exactly one ACK for every frame that
\* Parse returned in the call.
C9_AckPerFrame ==
    last_op = "receive" => NumSent(written, ACK) = hist.rx_frames

\* C10 as stated: given a corrupt frame immediately followed by a valid
\* frame with a SNAP message, on_receive writes exactly one NAK and then
\* exactly one ACK, and gives the message to the classifier.
C10_AsStated ==
    (last_op = "receive" /\ hist.rx_kind \in CorruptKinds) =>
        /\ AcksAndNaks(written) = << NAK, ACK >>
        /\ dispatched = << << 1, 128 >> >>

\* C10, amended: the same, for the corrupt frames other than those with ETX
\* or NAK put as the first byte of a pair of the data field.
C10_NakThenAck ==
    (last_op = "receive"
        /\ hist.rx_kind \in CorruptKinds \ {"nibble_etx", "nibble_nak"}) =>
        /\ AcksAndNaks(written) = << NAK, ACK >>
        /\ dispatched = << << 1, 128 >> >>

C10_Witness ==
    /\ last_op = "receive" /\ hist.rx_kind = "truncated"
    /\ AcksAndNaks(written) = << NAK, ACK >>
    /\ dispatched = << << 1, 128 >> >>
    /\ rx_buffer = << >>

\* C11: when, inside on_receive, Parse returned consumed = 0 while the
\* receive buffer held RX_BUFFER_MAX_LEN bytes or more, the buffer is empty
\* on return, the session is FINISHED and the call wrote one NAK for it
\* (beside one per NAK-worthy result before it), as its last write; and
\* the receive buffer never holds RX_BUFFER_MAX_LEN bytes or more when
\* on_receive has returned.
C11_Overrun ==
    last_op = "receive" =>
        /\ Len(rx_buffer) < RX_BUFFER_MAX_LEN
        /\ hist.rx_overrun =>
              /\ rx_buffer = << >>
              /\ session_state = SESSION_FINISHED
              /\ NumSent(written, NAK) = hist.rx_nacks + 1
              /\ written[Len(written)].bytes = << NAK >>

C11_Witness ==
    /\ last_op = "receive" /\ hist.rx_overrun /\ hist.rx_nacks = 1
    /\ rx_buffer = << >>
    /\ session_state = SESSION_FINISHED
    /\ NumSent(written, NAK) = 2

\* What C12 says of every pass on ACK, EOT or ENQ, but for the clause on a
\* session that was FINISHED: the pass takes 1 byte, leaves the session
\* FINISHED, the downlink slot empty and the retransmit count 0; ENQ writes
\* one EOT and nothing else, ACK and EOT write nothing.
C12_Finishes(p) ==
    /\ p.consumed = 1
    /\ p.to_state = SESSION_FINISHED
    /\ p.to_slot = << >>
    /\ p.to_count = 0
    /\ p.wrote = IF p.char = ENQ THEN << << EOT >> >> ELSE << >>

\* C12 as stated: ... and when the session was FINISHED already, ACK and
\* EOT leave session state, downlink slot and retransmit count unchanged.
C12_AsStated ==
    \A k \in 1..Len(hist.rx_passes) :
        LET p == hist.rx_passes[k]
        IN p.char \in {ACK, EOT, ENQ} =>
              /\ C12_Finishes(p)
              /\ (p.state = SESSION_FINISHED /\ p.char \in {ACK, EOT}) =>
                    /\ p.to_state = p.state
                    /\ p.to_slot = p.slot
                    /\ p.to_count = p.count

\* C12, amended: ... and when the session was FINISHED already, ACK and EOT
\* leave session state and downlink slot unchanged; the retransmit count
\* is unchanged unless a NAK met since the session finished has raised it.
C12_ControlByteFinishes ==
    \A k \in 1..Len(hist.rx_passes) :
        LET p == hist.rx_passes[k]
        IN p.char \in {ACK, EOT, ENQ} =>
              /\ C12_Finishes(p)
              /\ (p.state = SESSION_FINISHED /\ p.char \in {ACK, EOT}) =>
                    /\ p.to_state = p.state
                    /\ p.to_slot = p.slot
                    /\ p.count = 0 => p.to_count = p.count

C12_Witness ==
    /\ last_op = "receive"
    /\ Len(hist.rx_passes) = 2
    /\ hist.rx_passes[1].char = NAK
    /\ hist.rx_passes[1].state = SESSION_FINISHED
    /\ hist.rx_passes[2].char = EOT
    /\ hist.rx_passes[2].state = SESSION_FINISHED
    /\ hist.rx_passes[2].count = 1
    /\ hist.rx_passes[2].to_count = 0

\* C13: a Transmit(m) on the open port leaves the session active, as
\* ACTIVE_MASTER when it was IDLE or FINISHED and in its role otherwise;
\* the downlink slot holds Write(m), whatever it held; Write(m) was written
\* to the port once and nothing else; message_counter has grown by 1; the
\* retransmit count and active_faults are unchanged.
C13_Transmit ==
    [][(last_op' = "transmit" /\ port) =>
          /\ session_state' =
                 IF session_state \in {SESSION_IDLE, SESSION_FINISHED}
                 THEN SESSION_ACTIVE_MASTER ELSE session_state
          /\ session_state' \in
                 {SESSION_ACTIVE_MASTER, SESSION_ACTIVE_CLIENT}
          /\ downlink_buffer' = Write(hist'.tx_msg)
          /\ Len(written') = 1
          /\ written'[1].bytes = Write(hist'.tx_msg)
          /\ message_counter' = message_counter + 1
          /\ downlink_retransmit_count' = downlink_retransmit_count
          /\ active_faults' = active_faults]_vars

C13_Witness ==
    /\ last_op = "transmit" /\ port
    /\ session_state = SESSION_ACTIVE_CLIENT
    /\ hist.tx_msg = << 9, 0 >>
    /\ downlink_buffer = Write(<< 9, 0 >>)
    /\ message_counter = MaxMessages
    /\ downlink_retransmit_count >= 1

\* Clause (a) of C14: while linefault is active, it was added by a call of
\* re_transmit that found the retransmit count equal to the limit of its
\* cause.
C14_AddedAtLimit ==
    /\ hist.fault_by.cause \in
           {MESSAGE_STATE_NACKED, MESSAGE_STATE_NO_REPLY}
    /\ hist.fault_by.count = ResendLimit(hist.fault_by.cause)

\* C14 as stated: between handlers, while linefault is active, (a) holds
\* and (b) on_receive has sent no ACK for a frame since it was added.
C14_AsStated ==
    LineFault => C14_AddedAtLimit /\ ~hist.acked_since

\* C14, amended: between handlers, while linefault is active, (a) holds
\* and (b) on_receive has met no valid uplink event, a control byte or a
\* frame with a SNAP message that is not empty, since it was added.
C14_LineFaultMeaning ==
    LineFault => C14_AddedAtLimit /\ ~hist.valid_since

C14_Witness ==
    /\ LineFault /\ last_op = "receive"
    /\ hist.fault_by =
           [cause |-> MESSAGE_STATE_NO_REPLY, count |-> RESEND_LIMIT]
    /\ hist.acked_since
    /\ ~hist.valid_since
    /\ NumSent(written, ACK) = 1

\* linefault was absent during the last on_receive: it was not active when
\* the call began and no NAK of the buffer raised it
C15_NoLineFault ==
    /\ ~hist.pre_linefault
    /\ \A k \in 1..Len(hist.rx_passes) :
           ~InList("linefault", hist.rx_passes[k].to_faults)

C16_ClosedPortNoOp ==
    [][/\ (~port /\ last_op' \in {"transmit", "alarm", "control",
                                   "retransmit", "tick"}) =>
              UNCHANGED << session_state, downlink_buffer,
                           downlink_retransmit_count, since_downlink,
                           since_uplink, message_counter >>
       /\ last_op' = "tick" => diag_timer' = port]_vars

\* C17: every call of Parse on a buffer b returns 0 <= consumed <= len(b),
\* and consumed = 0 comes only with nack = false and no frame: a result that
\* sets nack or returns a frame consumes at least one byte.
C17_ConsumedBounds ==
    [][c_results' # c_results =>
          LET r == c_results'[Len(c_results')]
          IN /\ r = Parse(c_buf)
             /\ 0 <= r.consumed
             /\ r.consumed <= Len(c_buf)
             /\ (r.consumed = 0 => ~r.nack /\ ~r.parsed)
             /\ (r.nack \/ r.parsed => r.consumed >= 1)]_vars

\* A buffer was parsed several times: nothing was consumed from a partial
\* frame and the completed frame was returned
C17_Witness ==
    /\ \E k \in 1..Len(c_results) :
          c_results[k].consumed = 0 /\ ~c_results[k].nack
    /\ \E k \in 1..Len(c_results) :
          c_results[k].parsed /\ c_results[k].consumed >= 9

\* The rows of the prodex table: (system_id, service_class) and the loop_id
\* and the message_type (for type 1) it is rewritten to
ProdexRow(msg) ==
    LET key == << msg.system_id, msg.service_class >>
    IN IF key = << 680, 10 >> THEN << 1, 1 >>
       ELSE IF key = << 681, 11 >> THEN << 3, 8 >>
       ELSE IF key = << 688, 1 >> THEN << 0, 3 >>
       ELSE IF key = << 689, 1 >> THEN << 1, 1 >>
       ELSE << >>

\* C18: the prodex classifier forwards a message to the alarm sink if and
\* only if its message_type is 1 or 9 and (system_id, service_class) is one
\* of (680,10), (681,11), (688,1), (689,1); the forwarded record carries
\* loop_id 1, 3, 0, 1 respectively, and message_type 1, 8, 3, 1 respectively
\* when it was 1 and 9 when it was 9; every other message is discarded.
C18_ProdexTable ==
    m_done =>
        LET row == ProdexRow(m_msg)
            listed == m_msg.message_type \in {1, 9} /\ row # << >>
        IN /\ Len(m_alarms) = (IF listed THEN 1 ELSE 0)
           /\ listed =>
                 /\ m_alarms[1].data.loopId = Format(row[1])
                 /\ m_alarms[1].data.msgType =
                        (IF m_msg.message_type = 1 THEN Format(row[2])
                         ELSE Format(9))

\* An alarm of system 681, class 11, type 1 on loop 7 was forwarded as type 8
\* on loop 3
C18_Witness ==
    /\ m_done
    /\ m_msg = [system_id |-> 681, service_class |-> 11, message_type |-> 1,
                loop_id |-> 7]
    /\ Len(m_alarms) = 1
    /\ m_alarms[1].data.loopId = << 3 >>
    /\ m_alarms[1].data.msgType = << 8 >>

\* The NAK passes of the last on_receive: each is one call of
\* re_transmit(MESSAGE_STATE_NACKED)
C19_NakPasses(h) ==
    {k \in 1..Len(h.rx_passes) : h.rx_passes[k].char = NAK}

\* A call of re_transmit that found the count at the limit of its cause:
\* the session is finished, nothing is written, and linefault is added and
\* one fault-detected notification emitted iff linefault was not active
C19_AtLimit(p) ==
    /\ p.to_state = SESSION_FINISHED
    /\ p.to_slot = << >>
    /\ p.to_count = 0
    /\ p.wrote = << >>
    /\ InList("linefault", p.to_faults)
    /\ p.notified = (IF InList("linefault", p.faults) THEN << >>
                     ELSE << "fault_detected" >>)

\* The call of re_transmit(MESSAGE_STATE_NO_REPLY) of a diagnostic, as a
\* pass: the port before and after the step
C19_TickPass ==
    [state |-> session_state, slot |-> downlink_buffer,
     count |-> downlink_retransmit_count, faults |-> active_faults,
     to_state |-> session_state', to_slot |-> downlink_buffer',
     to_count |-> downlink_retransmit_count',
     to_faults |-> active_faults', notified |-> notified',
     wrote |-> [k \in 1..Len(written') |-> written'[k].bytes]]

\* C19 as stated, for the call that follows a call at the limit in the same
\* on_receive: it changes no state and writes nothing.
C19_AsStated ==
    \A k \in C19_NakPasses(hist) :
        LET p == hist.rx_passes[k]
        IN (k > 1 /\ hist.rx_passes[k - 1].char = NAK
                  /\ hist.rx_passes[k - 1].count = RESEND_LIMIT_NAK) =>
              /\ p.to_state = p.state
              /\ p.to_slot = p.slot
              /\ p.to_count = p.count
              /\ p.to_faults = p.faults
              /\ p.wrote = << >>

\* A call of re_transmit on an empty slot, which is every call after a call
\* at the limit and before the next Transmit or control byte sent: it puts
\* no byte on the port and leaves the slot empty, but below the limit it
\* advances the count and rewrites the empty slot.
C19_OnEmptySlot(p, limit) ==
    p.slot = << >> =>
        /\ p.to_slot = << >>
        /\ \A j \in 1..Len(p.wrote) : p.wrote[j] = << >>
        /\ p.count < limit =>
              /\ p.to_count = p.count + 1
              /\ p.to_state = p.state
              /\ p.to_faults = p.faults
              /\ p.wrote = << << >> >>
              /\ p.notified = << >>

\* C19, amended: a call of re_transmit with the count at the limit of its
\* cause (5 for NACKED, 10 for NO_REPLY) finishes the session, writes
\* nothing, and adds linefault and emits one fault-detected notification
\* iff linefault was not active; a further call before the next Transmit or
\* control byte sent writes no byte and leaves the slot empty, and advances
\* the count that the finish reset to 0.
C19_ReTransmitAtLimit ==
    [][/\ (last_op' = "tick" /\ port
            /\ TickCall.cause = MESSAGE_STATE_NO_REPLY) =>
              /\ TickCall.count = RESEND_LIMIT => C19_AtLimit(C19_TickPass)
              /\ C19_OnEmptySlot(C19_TickPass, RESEND_LIMIT)
       /\ last_op' = "receive" =>
              \A k \in C19_NakPasses(hist') :
                  LET p == hist'.rx_passes[k]
                  IN /\ p.count = RESEND_LIMIT_NAK => C19_AtLimit(p)
                     /\ C19_OnEmptySlot(p, RESEND_LIMIT_NAK)]_vars

\* Five timed retransmissions, then two NAKs in one buffer: the first found
\* the count at 5 and finished the session, the second advanced the count
\* and rewrote the empty slot
C19_Witness ==
    /\ last_op = "receive"
    /\ Len(hist.rx_passes) = 2
    /\ hist.rx_passes[1].char = NAK
    /\ hist.rx_passes[1].count = RESEND_LIMIT_NAK
    /\ hist.rx_passes[1].slot # << >>
    /\ hist.rx_passes[1].notified = << "fault_detected" >>
    /\ hist.rx_passes[2].char = NAK
    /\ hist.rx_passes[2].count = 0
    /\ hist.rx_passes[2].to_count = 1
    /\ hist.rx_passes[2].wrote = << << >> >>

\* C20: every NAK received while a session is active with a non-empty
\* downlink slot either has the slot rewritten to the port exactly once or
\* finishes the session with linefault raised, whatever the retransmit
\* count at that moment, also one reached through timed NO_REPLY
\* retransmissions of the same slot.
C20_NakRewritesOrFaults ==
    \A k \in 1..Len(hist.rx_passes) :
        LET p == hist.rx_passes[k]
        IN (/\ p.char = NAK
            /\ p.state \in {SESSION_ACTIVE_MASTER, SESSION_ACTIVE_CLIENT}
            /\ p.slot # << >>) =>
              \/ p.wrote = << p.slot >>
              \/ /\ p.to_state = SESSION_FINISHED
                 /\ InList("linefault", p.to_faults)

\* A call of re_transmit that found the count below the limit: the count is
\* one more, the slot was written once as it is, and the slot, the session
\* state and the faults are as before
C21_BelowLimit(p) ==
    /\ p.to_count = p.count + 1
    /\ p.wrote = << p.slot >>
    /\ p.to_slot = p.slot
    /\ p.to_state = p.state
    /\ p.to_faults = p.faults
    /\ p.notified = << >>

\* C21: a call of re_transmit with the count below the limit of its cause
\* (5 for NACKED, 10 for NO_REPLY) increases the count by exactly 1, writes
\* the current contents of the slot and leaves slot, session state and
\* active_faults unchanged, also when the slot is empty or the session is
\* IDLE or FINISHED.
C21_ReTransmitBelowLimit ==
    [][/\ (last_op' = "tick" /\ port
            /\ TickCall.cause = MESSAGE_STATE_NO_REPLY
            /\ TickCall.count < RESEND_LIMIT) =>
              C21_BelowLimit(C19_TickPass)
       /\ last_op' = "receive" =>
              \A k \in C19_NakPasses(hist') :
                  hist'.rx_passes[k].count < RESEND_LIMIT_NAK =>
                      C21_BelowLimit(hist'.rx_passes[k])]_vars

\* Two NAKs received by the idle port, nothing outstanding: the count went
\* from 0 to 1 and from 1 to 2, the empty slot was written twice
C21_Witness ==
    /\ last_op = "receive"
    /\ Len(hist.rx_passes) = 2
    /\ \A k \in 1..2 :
          /\ hist.rx_passes[k].char = NAK
          /\ hist.rx_passes[k].state = SESSION_IDLE
          /\ hist.rx_passes[k].slot = << >>
          /\ hist.rx_passes[k].count = k - 1
          /\ hist.rx_passes[k].to_count = k
          /\ hist.rx_passes[k].wrote = << << >> >>

\* C22: whenever on_receive returns with an empty receive buffer, the
\* session is FINISHED, the downlink slot is empty and the retransmit count
\* is 0, whatever the state before the call, also when the call sent ACK or
\* NAK and when a transmitted frame was not acknowledged.
C22_EmptyBufferFinishes ==
    (last_op = "receive" /\ rx_buffer = << >>) =>
        /\ session_state = SESSION_FINISHED
        /\ downlink_buffer = << >>
        /\ downlink_retransmit_count = 0

\* A frame was transmitted and retransmitted, no ACK came; a frame of the
\* peer was received whole and ACKed, and the session is finished
C22_Witness ==
    /\ last_op = "receive" /\ rx_buffer = << >>
    /\ hist.pre_outstanding
    /\ hist.rx_frames = 1
    /\ NumSent(written, ACK) = 1
    /\ Len(hist.rx_passes) = 0
    /\ session_state = SESSION_FINISHED

\* C23: a diagnostic with the port open and the session not active: when
\* less than 19.5 s have passed since the last valid uplink event the state
\* becomes IDLE and nothing is written; otherwise exactly one ENQ is
\* written and the session becomes ACTIVE_MASTER with ENQ in the slot, and
\* a later diagnostic after 4.5 s of silence rewrites the ENQ as a NO_REPLY
\* retransmission.
C23_IdlePoll ==
    [][(last_op' = "tick" /\ port) =>
          /\ (~session_is_active(Self) /\ since_uplink < UPLINK_SILENCE) =>
                /\ session_state' = SESSION_IDLE
                /\ written' = << >>
                /\ downlink_buffer' = downlink_buffer
          /\ (~session_is_active(Self) /\ since_uplink >= UPLINK_SILENCE) =>
                /\ Len(written') = 1
                /\ written'[1].bytes = << ENQ >>
                /\ session_state' = SESSION_ACTIVE_MASTER
                /\ downlink_buffer' = << ENQ >>
          /\ (/\ session_is_active(Self)
              /\ downlink_buffer = << ENQ >>
              /\ since_downlink >= DOWNLINK_SILENCE
              /\ downlink_retransmit_count < RESEND_LIMIT) =>
                /\ Len(written') = 1
                /\ written'[1].bytes = << ENQ >>
                /\ written'[1].via = "retransmit"
                /\ downlink_retransmit_count' =
                       downlink_retransmit_count + 1
                /\ downlink_buffer' = << ENQ >>]_vars

\* The ENQ of a poll was retransmitted twice by silent diagnostics
C23_Witness ==
    /\ last_op = "tick"
    /\ session_state = SESSION_ACTIVE_MASTER
    /\ downlink_buffer = << ENQ >>
    /\ downlink_retransmit_count = 2
    /\ Len(written) = 1
    /\ written[1].bytes = << ENQ >>
    /\ written[1].via = "retransmit"
    /\ message_counter = 0

\* C24: in every reachable state, between handlers and after each control
\* byte of a received buffer, 0 <= retransmit count <= RESEND_LIMIT.
C24_CountBounded ==
    /\ downlink_retransmit_count \in 0..RESEND_LIMIT
    /\ \A k \in 1..Len(hist.rx_passes) :
          /\ hist.rx_passes[k].count \in 0..RESEND_LIMIT
          /\ hist.rx_passes[k].to_count \in 0..RESEND_LIMIT

\* Ten timed retransmissions, then a NAK: it found the count at
\* RESEND_LIMIT and left it there
C24_Witness ==
    /\ last_op = "receive"
    /\ \E k \in 1..Len(hist.rx_passes) :
          /\ hist.rx_passes[k].char = NAK
          /\ hist.rx_passes[k].count = RESEND_LIMIT
          /\ hist.rx_passes[k].to_count = RESEND_LIMIT

\* C25: between handlers, a downlink slot that is not empty implies an
\* active session (ACTIVE_MASTER or ACTIVE_CLIENT): with the state IDLE or
\* FINISHED the slot is empty, and no diagnostic retransmits an empty slot.
C25_SlotImpliesActive ==
    /\ downlink_buffer # << >> => session_is_active(Self)
    /\ ~session_is_active(Self) => downlink_buffer = << >>
    /\ last_op = "tick" =>
          \A k \in 1..Len(written) :
              written[k].via = "retransmit" => written[k].bytes # << >>

\* A diagnostic retransmitted the ACK of a client session whose next frame
\* is not complete
C25_Witness ==
    /\ last_op = "tick"
    /\ session_state = SESSION_ACTIVE_CLIENT
    /\ downlink_buffer = << ACK >>
    /\ Len(written) = 1
    /\ written[1].via = "retransmit"
    /\ written[1].bytes = << ACK >>

\* The fault-detected notifications of a call are one when the call turned
\* linefault from absent to present, and none otherwise
C26_OnTransition(before, after, notes) ==
    Count(notes, "fault_detected") =
        (IF ~InList("linefault", before) /\ InList("linefault", after)
         THEN 1 ELSE 0)

\* The fault-detected notifications of the control-byte passes of a buffer
RECURSIVE C26_InPasses(_)
C26_InPasses(passes) ==
    IF passes = << >> THEN 0
    ELSE Count(Head(passes).notified, "fault_detected")
            + C26_InPasses(Tail(passes))

\* C26: over every run, active_faults holds linefault at most once; a
\* fault-detected notification is emitted only when linefault goes from
\* absent to present, so that a fault-over lies between any two of them; and
\* the fault-over notifications never outnumber the fault-detected ones by
\* more than one.
C26_Notifications ==
    [][/\ Count(active_faults', "linefault") <= 1
       /\ last_op' = "receive" =>
             /\ \A k \in 1..Len(hist'.rx_passes) :
                   C26_OnTransition(hist'.rx_passes[k].faults,
                                    hist'.rx_passes[k].to_faults,
                                    hist'.rx_passes[k].notified)
             /\ Count(notified', "fault_detected") =
                    C26_InPasses(hist'.rx_passes)
       /\ last_op' \in {"transmit", "tick"} =>
             C26_OnTransition(active_faults, active_faults', notified')
       /\ ~hist'.note_twice
       /\ hist'.note_balance >= -1]_vars

\* The first uplink event came before any fault; linefault was raised later
\* and the last on_receive cleared it: one fault-over more than
\* fault-detected
C26_Witness ==
    /\ hist.noting
    /\ hist.note_last = "fault_over"
    /\ hist.note_balance = -1
    /\ last_op = "receive"
    /\ hist.pre_linefault
    /\ notified = << "fault_over" >>

====
